---- MODULE Spec2Model ----
(***************************************************************************)
(* Model of the three plotting scripts of solar-vision:                    *)
(*   Shadow.py            plot_heatmap            (pivot, origin='lower')  *)
(*   plot_flux_map.py     plot_receiver_flux_map  (pivot, nan_to_num)      *)
(*   plot_flux_map_2.py   module-level script     (reshape, smoothing)     *)
(* Each run is a straight line of steps: load the CSV, rebuild the grid,   *)
(* post-process it, hand it to the renderer.  The CSV file, the script     *)
(* that runs and (for plot_flux_map_2) the edited configuration constants  *)
(* are the inputs, drawn in Init.                                          *)
(*                                                                         *)
(* Grids are sequences of rows (1-based): the zero-based cell (r, c) of    *)
(* the numpy array is grid[r + 1][c + 1].                                  *)
(***************************************************************************)
EXTENDS Integers, Sequences, FiniteSets

VARIABLES script, pc, file, cfg, df, grid, processed, image, out, raised

vars == <<script, pc, file, cfg, df, grid, processed, image, out, raised>>

(***************************************************************************)
(* Bounds of the model.                                                    *)
(***************************************************************************)
\* most data rows a CSV file holds
MaxRows == 4
\* largest side length of a grid handed to the tick computation (SpecTicks)
MaxSide == 26
\* the index values a CSV cell of an index column holds
IndexValues == {0, 1}
\* the side lengths a grid can have with these index values
SideValues == {i + 1 : i \in IndexValues}

(***************************************************************************)
(* float64 cell values: finite numbers, NaN, +inf, -inf.  "max" is the     *)
(* largest finite float64 (numpy.finfo(float64).max), signed by n.         *)
(***************************************************************************)
Fin(n) == [t |-> "fin", n |-> n]
NaN == [t |-> "nan", n |-> 0]
PosInf == [t |-> "inf", n |-> 1]
NegInf == [t |-> "inf", n |-> 0 - 1]
FloatMax == [t |-> "max", n |-> 1]
FloatMin == [t |-> "max", n |-> 0 - 1]

\* the finite values a CSV cell of the value column holds
FiniteValues == {Fin(1), Fin(2)}
\* every class of float64 value a grid cell can hold
AllValues == FiniteValues \cup {NaN, PosInf, NegInf}

None == [t |-> "None"]

(***************************************************************************)
(* The scripts and the column names each one uses.                         *)
(***************************************************************************)
Scripts == {"Shadow", "plot_flux_map", "plot_flux_map_2"}
PivotScripts == {"Shadow", "plot_flux_map"}

\* df.pivot(index=...)
IndexCol(s) == IF s = "Shadow" THEN "Y_Index" ELSE "Z_Index"
\* df.pivot(columns=...)
ColumnsCol(s) == IF s = "Shadow" THEN "X_Index" ELSE "Theta_Index"
\* df.pivot(values=...) and df['Flux_Density(W/m^2)']
ValuesCol(s) == IF s = "Shadow" THEN "Shading_Efficiency" ELSE "Flux_Density(W/m^2)"

AllCols(s) == {IndexCol(s), ColumnsCol(s), ValuesCol(s)}

RECEIVER_BASE_Z == 76
RECEIVER_HEIGHT == 8

(***************************************************************************)
(* Grid helpers (numpy shape and indexing).                                *)
(***************************************************************************)
NumRows(g) == Len(g)
NumCols(g) == IF Len(g) = 0 THEN 0 ELSE Len(g[1])
Shape(g) == <<NumRows(g), NumCols(g)>>
Max(a, b) == IF a >= b THEN a ELSE b

\* the members of a finite set of integers in ascending order
RECURSIVE SortedSeq(_)
SortedSeq(S) ==
    IF S = {} THEN <<>>
    ELSE LET m == CHOOSE x \in S : \A y \in S : x <= y
         IN  <<m>> \o SortedSeq(S \ {m})

(***************************************************************************)
(* pandas: DataFrame.pivot(index, columns, values).  d is a loaded frame,  *)
(* [columns |-> set of column names, rows |-> sequence of rows], a row a   *)
(* function from the frame's columns to cell values.                       *)
(***************************************************************************)
\* the exception pivot raises: KeyError for an absent column, ValueError
\* ("Index contains duplicate entries, cannot reshape") for a repeated key
PivotRaises(d, index, columns, values) ==
    IF ~({index, columns, values} \subseteq d.columns) THEN "KeyError"
    ELSE IF \E i, j \in DOMAIN d.rows :
                /\ i < j
                /\ d.rows[i][index] = d.rows[j][index]
                /\ d.rows[i][columns] = d.rows[j][columns]
         THEN "ValueError"
         ELSE "none"

\* faulty variant: index and columns swapped (the transposed matrix)
PivotGridTransposed(d, index, columns, values) ==
    LET rk == SortedSeq({d.rows[i][columns] : i \in DOMAIN d.rows})
        ck == SortedSeq({d.rows[i][index] : i \in DOMAIN d.rows})
        Hit(r, c) == {i \in DOMAIN d.rows :
                        d.rows[i][columns] = rk[r] /\ d.rows[i][index] = ck[c]}
    IN  [r \in 1..Len(rk) |->
            [c \in 1..Len(ck) |->
                IF Hit(r, c) = {} THEN NaN
                ELSE d.rows[CHOOSE i \in Hit(r, c) : TRUE][values]]]

\* faulty variant: the matrix in the order of first appearance of the keys (no sort)
PivotGridUnsorted(d, index, columns, values) ==
    LET First(col, k) == CHOOSE i \in DOMAIN d.rows :
                            /\ d.rows[i][col] = k
                            /\ \A j \in DOMAIN d.rows : d.rows[j][col] = k => i <= j
        Keys(col) == {d.rows[i][col] : i \in DOMAIN d.rows}
        Rank(col, k) == Cardinality({k2 \in Keys(col) : First(col, k2) <= First(col, k)})
        Hit(r, c) == {i \in DOMAIN d.rows :
                        /\ Rank(index, d.rows[i][index]) = r
                        /\ Rank(columns, d.rows[i][columns]) = c}
    IN  [r \in 1..Cardinality(Keys(index)) |->
            [c \in 1..Cardinality(Keys(columns)) |->
                IF Hit(r, c) = {} THEN NaN
                ELSE d.rows[CHOOSE i \in Hit(r, c) : TRUE][values]]]

\* the matrix of a pivot that does not raise: rows are the sorted distinct
\* index keys, columns the sorted distinct column keys, a cell the value of
\* the row with that key pair, NaN where no row has it (.values / .to_numpy())
PivotGrid(d, index, columns, values) ==
    LET rk == SortedSeq({d.rows[i][index] : i \in DOMAIN d.rows})
        ck == SortedSeq({d.rows[i][columns] : i \in DOMAIN d.rows})
        Hit(r, c) == {i \in DOMAIN d.rows :
                        d.rows[i][index] = rk[r] /\ d.rows[i][columns] = ck[c]}
    IN  [r \in 1..Len(rk) |->
            [c \in 1..Len(ck) |->
                IF Hit(r, c) = {} THEN NaN
                ELSE d.rows[CHOOSE i \in Hit(r, c) : TRUE][values]]]

(***************************************************************************)
(* numpy: df[col].values.reshape((h, w)), C (row-major) order.             *)
(***************************************************************************)
\* the value column as a flat sequence, in file order
ColumnValues(d, col) == [i \in DOMAIN d.rows |-> d.rows[i][col]]

\* faulty variant: a flat sequence that is too long is accepted (and cut)
ReshapeRaisesOnlyShort(flat, h, w) ==
    IF Len(flat) < h * w THEN "ValueError" ELSE "none"

\* reshape raises ValueError unless the size is exactly h * w
ReshapeRaises(flat, h, w) ==
    IF Len(flat) # h * w THEN "ValueError" ELSE "none"

\* faulty variant: Fortran (column-major) order
ReshapeColumnMajor(flat, h, w) ==
    [r \in 1..h |-> [c \in 1..w |-> flat[(c - 1) * h + r]]]

Reshape(flat, h, w) ==
    [r \in 1..h |-> [c \in 1..w |-> flat[(r - 1) * w + c]]]

(***************************************************************************)
(* numpy: nan_to_num(x, nan=0.0): NaN becomes 0.0, and with posinf and     *)
(* neginf left at their defaults +inf becomes the largest finite float64   *)
(* and -inf the most negative one.                                         *)
(***************************************************************************)
NanToNumCell(v) ==
    IF v = NaN THEN Fin(0)
    ELSE IF v = PosInf THEN FloatMax
    ELSE IF v = NegInf THEN FloatMin
    ELSE v

NanToNum(g) == [r \in DOMAIN g |-> [c \in DOMAIN g[r] |-> NanToNumCell(g[r][c])]]

(***************************************************************************)
(* scipy.ndimage.gaussian_filter(input, sigma): mode='reflect',            *)
(* truncate=4.0.  sigma is in tenths of a cell (12 is 1.2).  The weights   *)
(* exp(-x^2 / (2 sigma^2)) are in thousandths; a blurred cell is the       *)
(* exact quotient GaussianNum / GaussianDen.  An axis whose sigma is 0 is  *)
(* skipped, which leaves the input unchanged.                              *)
(***************************************************************************)
GaussianWeights(sigma) ==
    IF sigma = 12 THEN <<1000, 707, 249, 44, 4, 0>> ELSE <<1000>>

\* weight of offset x, |x| <= radius
GaussianW(sigma, x) == GaussianWeights(sigma)[(IF x < 0 THEN 0 - x ELSE x) + 1]
GaussianRadius(sigma) == Len(GaussianWeights(sigma)) - 1

\* mode='reflect': (d c b a | a b c d | d c b a), zero-based position i of n
Reflect(i, n) ==
    LET m == i % (2 * n) IN IF m < n THEN m ELSE 2 * n - 1 - m

RECURSIVE SumOver(_, _, _)
\* sum of F[x] for x in lo..hi
SumOver(F, lo, hi) == IF lo > hi THEN 0 ELSE F[lo] + SumOver(F, lo + 1, hi)

GaussianDen(sigma) ==
    LET R == GaussianRadius(sigma)
        S == SumOver([x \in (0 - R)..R |-> GaussianW(sigma, x)], 0 - R, R)
    IN  S * S

\* numerator of the blurred cell at zero-based (r, c) of a grid of finite cells
GaussianNum(g, sigma, r, c) ==
    LET R == GaussianRadius(sigma)
        h == NumRows(g)
        w == NumCols(g)
        RowSum(rr) == SumOver([x \in (0 - R)..R |->
                                 GaussianW(sigma, x) * g[rr + 1][Reflect(c + x, w) + 1].n],
                              0 - R, R)
    IN  SumOver([y \in (0 - R)..R |-> GaussianW(sigma, y) * RowSum(Reflect(r + y, h))],
                0 - R, R)

\* a grid `a` holds exactly the Gaussian blur of the grid `g`
IsGaussianFilterOf(a, g, sigma) ==
    /\ Shape(a) = Shape(g)
    /\ \A r \in 1..NumRows(g) : \A c \in 1..NumCols(g) :
          /\ a[r][c].t = "fin"
          /\ a[r][c].n * GaussianDen(sigma) = GaussianNum(g, sigma, r - 1, c - 1)

(***************************************************************************)
(* numpy.arange(0, stop, step) and the tick interval of plot_heatmap.      *)
(***************************************************************************)
Arange(start, stop, step) ==
    [i \in 1..((stop - start + step - 1) \div step) |-> start + (i - 1) * step]

TickInterval(side_length_x) == Max(1, side_length_x \div 12)

(***************************************************************************)
(* matplotlib: Axes.imshow(data, origin, extent).  With origin 'lower'     *)
(* row 0 of the data is drawn in the bottom band of the vertical extent,   *)
(* with origin 'upper' (the rcParams default, restored by                  *)
(* plt.style.use('default')) in the top band.                              *)
(***************************************************************************)
DefaultOrigin == "upper"

\* the band (0 is the bottom one) in which zero-based data row r is drawn
RowBand(img, r) ==
    IF img.origin = "lower" THEN r ELSE NumRows(img.data) - 1 - r

\* lower edge of the band of data row r, times the number of rows
RowBottomTimesN(img, r) ==
    img.extent[3] * NumRows(img.data) + RowBand(img, r) * (img.extent[4] - img.extent[3])

\* upper edge of the band of data row r, times the number of rows
RowTopTimesN(img, r) ==
    img.extent[3] * NumRows(img.data) + (RowBand(img, r) + 1) * (img.extent[4] - img.extent[3])

(***************************************************************************)
(* The inputs: the CSV file on disk and the configuration constants.       *)
(***************************************************************************)
NoGrid == <<>>

\* one CSV row over the columns cs of script s
Row(s, cs, r, c, v) ==
    [col \in cs |-> IF col = IndexCol(s) THEN r
                    ELSE IF col = ColumnsCol(s) THEN c
                    ELSE v]

RowSet(s, cs) ==
    {Row(s, cs, r, c, v) : r \in IndexValues, c \in IndexValues, v \in FiniteValues}

\* a header with every column the script names, or with one of them absent
ColumnSets(s) == {AllCols(s)} \cup {AllCols(s) \ {c} : c \in AllCols(s)}

\* f is a CSV file of script s with a header and 1..MaxRows data rows (a file
\* with no data row is left out: what imshow does with an empty array is
\* not decided by the scripts)
IsFile(f, s) ==
    \E cs \in ColumnSets(s) : \E n \in 1..MaxRows : \E rs \in [1..n -> RowSet(s, cs)] :
        f = [columns |-> cs, rows |-> rs]

\* the CSV file that lists the cells of grid g in row-major order
FileOfGrid(s, g) ==
    [columns |-> AllCols(s),
     rows |-> [i \in 1..(NumRows(g) * NumCols(g)) |->
                 LET r == (i - 1) \div NumCols(g)
                     c == (i - 1) % NumCols(g)
                 IN  Row(s, AllCols(s), r, c, g[r + 1][c + 1])]]

\* GRID_HEIGHT, GRID_WIDTH and SMOOTHING_SIGMA (in tenths) of plot_flux_map_2
Configs ==
    [GRID_HEIGHT : SideValues, GRID_WIDTH : SideValues, SMOOTHING_SIGMA : {0, 12}]

Message(text, detail) == [text |-> text, detail |-> detail]

Init ==
    /\ script \in Scripts
    /\ pc = IF script = "plot_flux_map_2" THEN "load" ELSE "read"
    /\ file = None \/ IsFile(file, script)
    /\ cfg \in IF script = "plot_flux_map_2" THEN Configs ELSE {None}
    /\ df = None
    /\ grid = NoGrid
    /\ processed = NoGrid
    /\ image = None
    /\ out = <<>>
    /\ raised = "none"

(***************************************************************************)
(* Shadow.py: plot_heatmap(csv_file_path, heliostat_id)                    *)
(***************************************************************************)
\* faulty variant: FileNotFoundError is swallowed, the call returns without a word
Shadow_ReadCsvSilent ==
    /\ script = "Shadow" /\ pc = "read"
    /\ IF file = None
       THEN /\ pc' = "done"
            /\ df' = df
       ELSE /\ df' = file
            /\ pc' = "check_columns"
    /\ UNCHANGED <<script, file, cfg, grid, processed, image, out, raised>>

\* lines 14-19: pd.read_csv; FileNotFoundError is printed and the call returns
Shadow_ReadCsv ==
    /\ script = "Shadow" /\ pc = "read"
    /\ IF file = None
       THEN /\ out' = Append(out, Message("Error: File not found", "none"))
            /\ pc' = "done"
            /\ df' = df
       ELSE /\ df' = file
            /\ pc' = "check_columns"
            /\ out' = out
    /\ UNCHANGED <<script, file, cfg, grid, processed, image, raised>>

\* lines 23-25: the three required columns, or print and return
Shadow_CheckColumns ==
    /\ script = "Shadow" /\ pc = "check_columns"
    /\ IF ~(AllCols(script) \subseteq df.columns)
       THEN /\ out' = Append(out, Message("Error: CSV file must contain columns", "none"))
            /\ pc' = "done"
       ELSE /\ pc' = "pivot"
            /\ out' = out
    /\ UNCHANGED <<script, file, cfg, df, grid, processed, image, raised>>

\* lines 28-35: df.pivot(...).values; any exception is printed and the call returns
Shadow_Pivot ==
    /\ script = "Shadow" /\ pc = "pivot"
    /\ LET e == PivotRaises(df, IndexCol(script), ColumnsCol(script), ValuesCol(script))
       IN  IF e # "none"
           THEN /\ out' = Append(out, Message("Error processing data into a matrix", e))
                /\ pc' = "done"
                /\ grid' = grid
           ELSE /\ grid' = PivotGrid(df, IndexCol(script), ColumnsCol(script),
                                     ValuesCol(script))
                /\ pc' = "render"
                /\ out' = out
    /\ UNCHANGED <<script, file, cfg, df, processed, image, raised>>

\* lines 41-70: imshow(origin='lower'), ticks, savefig, show.  The default
\* extent (-0.5, w - 0.5, -0.5, h - 0.5) is held in half cells.
Shadow_Render ==
    /\ script = "Shadow" /\ pc = "render"
    /\ LET side_length_y == NumRows(grid)
           side_length_x == NumCols(grid)
           tick_interval == TickInterval(side_length_x)
       IN  image' = [data |-> grid,
                     origin |-> "lower",
                     extent |-> <<0 - 1, 2 * side_length_x - 1,
                                  0 - 1, 2 * side_length_y - 1>>,
                     xticks |-> Arange(0, side_length_x, tick_interval),
                     yticks |-> Arange(0, side_length_y, tick_interval),
                     saved |-> TRUE,
                     shown |-> TRUE]
    /\ out' = Append(out, Message("Success! Saved sharp, high-resolution map", "none"))
    /\ pc' = "done"
    /\ UNCHANGED <<script, file, cfg, df, grid, processed, raised>>

(***************************************************************************)
(* plot_flux_map.py: plot_receiver_flux_map(csv_file, base_z, height)      *)
(***************************************************************************)
\* lines 28-32: pd.read_csv; FileNotFoundError is printed and the call returns
Flux_ReadCsv ==
    /\ script = "plot_flux_map" /\ pc = "read"
    /\ IF file = None
       THEN /\ out' = Append(out, Message("error: file not found", "none"))
            /\ pc' = "done"
            /\ df' = df
       ELSE /\ df' = file
            /\ pc' = "pivot"
            /\ out' = out
    /\ UNCHANGED <<script, file, cfg, grid, processed, image, raised>>

\* lines 36-39: df.pivot(...).to_numpy(), outside any try: an exception
\* leaves the function and ends the run with its traceback
Flux_Pivot ==
    /\ script = "plot_flux_map" /\ pc = "pivot"
    /\ LET e == PivotRaises(df, IndexCol(script), ColumnsCol(script), ValuesCol(script))
       IN  IF e # "none"
           THEN /\ raised' = e
                /\ pc' = "crashed"
                /\ grid' = grid
           ELSE /\ grid' = PivotGrid(df, IndexCol(script), ColumnsCol(script),
                                     ValuesCol(script))
                /\ pc' = "nan_to_num"
                /\ raised' = raised
    /\ UNCHANGED <<script, file, cfg, df, processed, image, out>>

\* line 40: flux_grid = np.nan_to_num(flux_grid, nan=0.0)
Flux_NanToNum ==
    /\ script = "plot_flux_map" /\ pc = "nan_to_num"
    /\ processed' = NanToNum(grid)
    /\ pc' = "render"
    /\ UNCHANGED <<script, file, cfg, df, grid, image, out, raised>>

\* lines 43-85: imshow(extent=...) with no origin argument, ticks, savefig, show
Flux_Render ==
    /\ script = "plot_flux_map" /\ pc = "render"
    /\ image' = [data |-> processed,
                 origin |-> DefaultOrigin,
                 extent |-> <<0 - 180, 180, RECEIVER_BASE_Z,
                              RECEIVER_BASE_Z + RECEIVER_HEIGHT>>,
                 xticks |-> Arange(0 - 180, 181, 30),
                 yticks |-> Arange(RECEIVER_BASE_Z,
                                   RECEIVER_BASE_Z + RECEIVER_HEIGHT + 1, 1),
                 saved |-> TRUE,
                 shown |-> TRUE]
    /\ out' = Append(out, Message("plot saved", "none"))
    /\ pc' = "done"
    /\ UNCHANGED <<script, file, cfg, df, grid, processed, raised>>

(***************************************************************************)
(* plot_flux_map_2.py: the module-level script                             *)
(***************************************************************************)
\* the exception of lines 25-26: read_csv, df[col], reshape, in that order
Flux2_LoadRaises ==
    IF file = None THEN "FileNotFoundError"
    ELSE IF ValuesCol(script) \notin file.columns THEN "KeyError"
    ELSE ReshapeRaises(ColumnValues(file, ValuesCol(script)),
                       cfg.GRID_HEIGHT, cfg.GRID_WIDTH)

\* lines 23-31: load and reshape in one try; any Exception is printed with
\* its text and exit() ends the script.  Lines 36-37, indented under the
\* commented-out `if`, belong to this except block and follow exit(): they
\* never run.
Flux2_LoadReshape ==
    /\ script = "plot_flux_map_2" /\ pc = "load"
    /\ df' = file
    /\ LET e == Flux2_LoadRaises
       IN  IF e # "none"
           THEN /\ out' = Append(out, Message("error: cannot load or reshape the data", e))
                /\ pc' = "exited"
                /\ grid' = grid
           ELSE /\ grid' = Reshape(ColumnValues(file, ValuesCol(script)),
                                   cfg.GRID_HEIGHT, cfg.GRID_WIDTH)
                /\ out' = Append(out, Message("data loaded and reshaped", "none"))
                /\ pc' = "process"
    /\ UNCHANGED <<script, file, cfg, processed, image, raised>>

\* line 39: flux_data_processed = flux_data
Flux2_Process ==
    /\ script = "plot_flux_map_2" /\ pc = "process"
    /\ processed' = grid
    /\ pc' = "render"
    /\ UNCHANGED <<script, file, cfg, df, grid, image, out, raised>>

\* lines 43-78: imshow(origin='lower', extent=...), ticks, show (no savefig)
Flux2_Render ==
    /\ script = "plot_flux_map_2" /\ pc = "render"
    /\ image' = [data |-> processed,
                 origin |-> "lower",
                 extent |-> <<0 - 180, 180, RECEIVER_BASE_Z,
                              RECEIVER_BASE_Z + RECEIVER_HEIGHT>>,
                 xticks |-> Arange(0 - 180, 181, 30),
                 yticks |-> "auto",
                 saved |-> FALSE,
                 shown |-> TRUE]
    /\ out' = Append(out, Message("plot done, showing", "none"))
    /\ pc' = "done"
    /\ UNCHANGED <<script, file, cfg, df, grid, processed, raised>>

Next ==
    \/ Shadow_ReadCsv
    \/ Shadow_CheckColumns
    \/ Shadow_Pivot
    \/ Shadow_Render
    \/ Flux_ReadCsv
    \/ Flux_Pivot
    \/ Flux_NanToNum
    \/ Flux_Render
    \/ Flux2_LoadReshape
    \/ Flux2_Process
    \/ Flux2_Render

Spec == Init /\ [][Next]_vars

(***************************************************************************)
(* nan_to_num on grids that hold every class of float64 value: runs of     *)
(* plot_receiver_flux_map on the CSV files that list such a grid.          *)
(***************************************************************************)
Grids(V) == UNION {[1..h -> [1..w -> V]] : h \in SideValues, w \in SideValues}

InitNonFinite ==
    /\ script = "plot_flux_map"
    /\ pc = "read"
    /\ file \in {FileOfGrid("plot_flux_map", g) : g \in Grids(AllValues)}
    /\ cfg = None
    /\ df = None
    /\ grid = NoGrid
    /\ processed = NoGrid
    /\ image = None
    /\ out = <<>>
    /\ raised = "none"

NextFlux ==
    \/ Flux_ReadCsv
    \/ Flux_Pivot
    \/ Flux_NanToNum
    \/ Flux_Render

SpecNonFinite == InitNonFinite /\ [][NextFlux]_vars

(***************************************************************************)
(* The tick computation on wide and on tall grids: runs of plot_heatmap on *)
(* the CSV files of grids with one side up to MaxSide.                     *)
(***************************************************************************)
TickShapes ==
    {<<h, w>> : h \in SideValues, w \in 1..MaxSide}
        \cup {<<h, w>> : h \in 1..MaxSide, w \in SideValues}

InitTicks ==
    /\ script = "Shadow"
    /\ pc = "read"
    /\ file \in {FileOfGrid("Shadow", [r \in 1..sh[1] |-> [c \in 1..sh[2] |-> Fin(1)]]) :
                    sh \in TickShapes}
    /\ cfg = None
    /\ df = None
    /\ grid = NoGrid
    /\ processed = NoGrid
    /\ image = None
    /\ out = <<>>
    /\ raised = "none"

NextShadow ==
    \/ Shadow_ReadCsv
    \/ Shadow_CheckColumns
    \/ Shadow_Pivot
    \/ Shadow_Render

SpecTicks == InitTicks /\ [][NextShadow]_vars

(***************************************************************************)
(* Vocabulary of the properties.                                           *)
(***************************************************************************)
Terminal == pc \in {"done", "crashed", "exited"}

\* the (row index, column index) pairs of the rows of file f, read by script s
Keys(f, s) == {<<f.rows[i][IndexCol(s)], f.rows[i][ColumnsCol(s)]>> : i \in DOMAIN f.rows}

\* f holds exactly one row for each cell of the zero-based R x C rectangle
CompleteRect(f, s, R, C) ==
    /\ f # None
    /\ f.columns = AllCols(s)
    /\ Len(f.rows) = R * C
    /\ Keys(f, s) = (0..(R - 1)) \X (0..(C - 1))

\* the rows of f are listed in row-major (r, c) order of an R x C rectangle
RowMajor(f, s, R, C) ==
    /\ CompleteRect(f, s, R, C)
    /\ \A i \in DOMAIN f.rows :
          /\ f.rows[i][IndexCol(s)] = (i - 1) \div C
          /\ f.rows[i][ColumnsCol(s)] = (i - 1) % C

\* f has all columns and distinct keys, and a cell of the bounding rectangle
\* of its keys has no row
IncompleteRect(f, s) ==
    /\ f # None
    /\ f.columns = AllCols(s)
    /\ Cardinality(Keys(f, s)) = Len(f.rows)
    /\ \E k1, k2 \in Keys(f, s) : <<k1[1], k2[2]>> \notin Keys(f, s)

ErrorTexts ==
    {"Error: File not found", "error: file not found",
     "Error: CSV file must contain columns", "Error processing data into a matrix",
     "error: cannot load or reshape the data"}

\* the run printed an error message or ended in an exception
ErrorReported == raised # "none" \/ \E i \in DOMAIN out : out[i].text \in ErrorTexts

\* the run's output names the missing file as the cause
IdentifiesMissingFile ==
    \E i \in DOMAIN out :
        \/ out[i].text \in {"Error: File not found", "error: file not found"}
        \/ out[i].detail = "FileNotFoundError"

\* the run's output names the absent column as the cause
IdentifiesMissingColumn ==
    \/ raised = "KeyError"
    \/ \E i \in DOMAIN out :
          \/ out[i].text = "Error: CSV file must contain columns"
          \/ out[i].detail = "KeyError"

\* the columns a script reads
RequiredCols(s) == IF s = "plot_flux_map_2" THEN {ValuesCol(s)} ELSE AllCols(s)

NothingBuilt == grid = NoGrid /\ processed = NoGrid /\ image = None

(***************************************************************************)
(* The properties.                                                         *)
(***************************************************************************)

\* C1: pivot reconstruction of a complete R x C sample set (plot_heatmap and
\* plot_receiver_flux_map) produces a grid of shape (R, C) whose cell (r, c)
\* is the value of the one sample with row index r and column index c.
C1_PivotPlacesEverySample ==
    \A R \in SideValues : \A C \in SideValues :
        (/\ script \in PivotScripts
         /\ CompleteRect(file, script, R, C)
         /\ pc \notin {"read", "check_columns", "pivot"})
        => /\ Shape(grid) = <<R, C>>
           /\ \A i \in DOMAIN file.rows :
                 grid[file.rows[i][IndexCol(script)] + 1]
                     [file.rows[i][ColumnsCol(script)] + 1]
                   = file.rows[i][ValuesCol(script)]

\* C1 witness: a pivot run has rebuilt a complete 2 x 2 file whose rows are
\* not in row-major order and whose grid is not symmetric.
C1_Witness ==
    /\ script \in PivotScripts
    /\ CompleteRect(file, script, 2, 2)
    /\ ~RowMajor(file, script, 2, 2)
    /\ Terminal
    /\ Shape(grid) = <<2, 2>>
    /\ grid[1][2] # grid[2][1]

\* C2 (as claimed): a pivot run on a file with a missing cell of the bounding
\* rectangle ends in an error, and no grid reaches the renderer.
C2_IncompleteGridIsAnError ==
    (script \in PivotScripts /\ IncompleteRect(file, script))
    => /\ image = None
       /\ Terminal => ErrorReported

\* C3: in plot_flux_map_2 a value column whose length is not
\* GRID_HEIGHT * GRID_WIDTH ends the script in the reshape's ValueError:
\* no grid is built and nothing is rendered.
C3_ReshapeSizeMismatchStops ==
    (/\ script = "plot_flux_map_2"
     /\ file # None
     /\ ValuesCol(script) \in file.columns
     /\ Len(file.rows) # cfg.GRID_HEIGHT * cfg.GRID_WIDTH)
    => /\ NothingBuilt
       /\ pc \in {"load", "exited"}
       /\ pc = "exited" => out[Len(out)].detail = "ValueError"

\* C3 witness: the script has exited with the reshape's ValueError on a file
\* of more rows than the grid has cells (nothing was cut to fit).
C3_Witness ==
    /\ script = "plot_flux_map_2"
    /\ file # None
    /\ ValuesCol(script) \in file.columns
    /\ Len(file.rows) > cfg.GRID_HEIGHT * cfg.GRID_WIDTH
    /\ pc = "exited"
    /\ out[Len(out)].detail = "ValueError"

\* C4: on a complete R x C file listed in row-major order, the reshape of
\* plot_flux_map_2 with shape (R, C) builds the grid that the pivot of
\* plot_receiver_flux_map builds from the same file.
C4_ReshapeEqualsPivotOnRowMajor ==
    \A R \in SideValues : \A C \in SideValues :
        (/\ script = "plot_flux_map_2"
         /\ RowMajor(file, script, R, C)
         /\ cfg.GRID_HEIGHT = R /\ cfg.GRID_WIDTH = C
         /\ pc # "load")
        => /\ PivotRaises(file, "Z_Index", "Theta_Index", "Flux_Density(W/m^2)") = "none"
           /\ grid = PivotGrid(file, "Z_Index", "Theta_Index", "Flux_Density(W/m^2)")

\* C4 witness: the reshape has built a 2 x 2 grid, not symmetric, from a
\* row-major file.
C4_Witness ==
    /\ script = "plot_flux_map_2"
    /\ RowMajor(file, script, 2, 2)
    /\ cfg.GRID_HEIGHT = 2 /\ cfg.GRID_WIDTH = 2
    /\ pc = "done"
    /\ grid[1][2] # grid[2][1]

\* C5 (as claimed): nan_to_num in plot_receiver_flux_map keeps the shape,
\* turns every NaN cell into 0.0 and leaves every other cell, +inf and -inf
\* included, as it was.
C5_NanToNumChangesOnlyNaN ==
    (script = "plot_flux_map" /\ processed # NoGrid)
    => /\ Shape(processed) = Shape(grid)
       /\ \A r \in 1..NumRows(grid) : \A c \in 1..NumCols(grid) :
             processed[r][c] = IF grid[r][c] = NaN THEN Fin(0) ELSE grid[r][c]

\* C6 (as claimed): plot_flux_map_2 renders the Gaussian blur of the reshaped
\* grid when SMOOTHING_SIGMA > 0 and the reshaped grid itself when it is 0.
C6_RendersBlurWhenSigmaPositive ==
    (script = "plot_flux_map_2" /\ image # None)
    => IF cfg.SMOOTHING_SIGMA > 0
       THEN IsGaussianFilterOf(image.data, grid, cfg.SMOOTHING_SIGMA)
       ELSE image.data = grid

C8_FluxMapRowZeroAtBottom ==
    (script = "plot_flux_map" /\ image # None)
    => LET n == NumRows(image.data)
       IN  /\ RowBand(image, 0) = 0
           /\ RowBottomTimesN(image, 0) = RECEIVER_BASE_Z * n
           /\ RowTopTimesN(image, n - 1) = (RECEIVER_BASE_Z + RECEIVER_HEIGHT) * n

\* C9 (as claimed): plot_heatmap's tick interval is at least 1 and each axis
\* gets at most 12 tick positions.
C9_AtMostTwelveTicks ==
    (script = "Shadow" /\ image # None)
    => /\ TickInterval(NumCols(image.data)) >= 1
       /\ Len(image.xticks) <= 12
       /\ Len(image.yticks) <= 12

\* the grid a complete R x C file determines, whatever the order of its rows
GridOfSamples(f, s, R, C) ==
    [r \in 1..R |-> [c \in 1..C |->
        LET i == CHOOSE k \in DOMAIN f.rows :
                    /\ f.rows[k][IndexCol(s)] = r - 1
                    /\ f.rows[k][ColumnsCol(s)] = c - 1
        IN  f.rows[i][ValuesCol(s)]]]

\* C10: the grid a pivot run builds from a complete file depends on the set
\* of its rows only, not on their order (rows and columns ascend by index
\* value); the grid of plot_flux_map_2 follows the order of the file's rows.
C10_PivotIgnoresRowOrder ==
    /\ \A R \in SideValues : \A C \in SideValues :
          (/\ script \in PivotScripts
           /\ CompleteRect(file, script, R, C)
           /\ pc \notin {"read", "check_columns", "pivot"})
          => grid = GridOfSamples(file, script, R, C)
    /\ (script = "plot_flux_map_2" /\ grid # NoGrid)
       => \A i \in DOMAIN file.rows :
             grid[((i - 1) \div cfg.GRID_WIDTH) + 1][((i - 1) % cfg.GRID_WIDTH) + 1]
               = file.rows[i][ValuesCol(script)]

\* C10 witness: a pivot run has rebuilt a complete 2 x 2 file that lists the
\* last cell first, and the grid differs from the file-order grid.
C10_Witness ==
    /\ script \in PivotScripts
    /\ CompleteRect(file, script, 2, 2)
    /\ file.rows[1][IndexCol(script)] = 1
    /\ file.rows[1][ColumnsCol(script)] = 1
    /\ grid # NoGrid
    /\ grid # Reshape(ColumnValues(file, ValuesCol(script)), 2, 2)

====
